---- MODULE Spec2Model ----
(***************************************************************************)
(* A model of the OpenHands CLI agent driver.                              *)
(*                                                                         *)
(*  Part 1 (Spec, FairSpec): the ACP server, acp_impl/agent.py.  Request   *)
(*  handlers are coroutines on one asyncio loop: the code between two      *)
(*  awaits is one atomic action.  conversation.run executes on a worker    *)
(*  thread (asyncio.to_thread) that the loop cannot stop.                  *)
(*                                                                         *)
(*  Part 2 (SpecStream): the event stream of one session,                  *)
(*  acp_impl/event.py: the per-event handler coroutines that sync_callback *)
(*  submits to the loop during a live run, and the replay of the stored    *)
(*  log by load_session.                                                   *)
(*                                                                         *)
(*  Part 3 (SpecRunner): the confirmation run loop of the terminal UI,     *)
(*  refactor/core/conversation_runner.py.                                  *)
(*                                                                         *)
(*  Part 4 (SpecModal, SpecStatus, SpecInput): three widgets of the        *)
(*  terminal UI: the exit confirmation modal, the working status line and  *)
(*  the input field; (SpecSubmit, SpecConfirm): the application's handling *)
(*  of user messages and of confirmation requests.                         *)
(***************************************************************************)
EXTENDS Integers, Sequences, FiniteSets, TLC

\* ------------------------------------------------------------------ bounds
MaxReq == 3
MaxEvents == 2
MaxLog == 2
MaxMsgs == 2
MaxPending == 1
MaxPresses == 3
MaxTimers == 3
MaxClock == 3
MaxText == 3
MaxSubmits == 4
MaxConfirms == 5

Sessions == {"s1", "s2"}
Malformed == {"zz"}
Ids == Sessions \cup Malformed
Reqs == 1..MaxReq
NoHandle == 0
NoTask == 0

VARIABLES
  active_sessions,  \* _active_sessions: session id -> handle (NoHandle: absent)
  constructed,      \* session id -> number of Conversation objects built for it
  running_tasks,    \* _running_tasks: session id -> task (NoTask: absent)
  req,              \* the request handlers (coroutines) and their positions
  task,             \* asyncio task created by prompt request r (run_task)
  thread,           \* worker thread of task r, executing conversation.run
  status,           \* engine: execution status of the session's conversation
  events,           \* engine: length of the session's event log
  \* -- the event stream of one session
  log,              \* the events the engine appends during the live run
  appended,         \* how many of them it has appended (and submitted)
  started,          \* how many handler coroutines the loop has started
  sent,             \* per event: notifications its live handler has sent
  wire,             \* the connection during the live run: <<event, kind>>
  ridx,             \* load_session: stored events replayed so far
  rwire,            \* the connection during the replay
  stats,            \* whether the conversation has aggregate statistics
  \* -- the conversation runner of the terminal UI
  rstatus,          \* engine: execution status of the runner's conversation
  policy,           \* engine: the conversation's confirmation policy
  pending,          \* engine: unmatched (pending) actions in the event log
  confActive,       \* _confirmation_mode_active
  running,          \* _running
  rpc,              \* position of the worker in _run_conversation_sync
  hasCallback,      \* whether a confirmation callback is set
  decision,         \* the decision of the last confirmation request
  deferred,         \* DEFER was decided and no message was processed since
  deferredVia,      \* where DEFER was decided so far: "pre", "loop"
  msgs,             \* messages processed so far
  asked,            \* the callback was invoked for the pending actions
  rcalls,           \* calls the worker made in its last step
  ui,               \* the last operation of the UI and the calls it made
  \* -- the exit confirmation modal
  mOpen,            \* the modal is on the screen
  mCfg,             \* the callbacks it was built with
  mButton,          \* the button pressed last
  mTrace,           \* what on_button_pressed did, in order
  mPresses,         \* button presses so far
  \* -- the working status line
  mounted,          \* the widget is mounted
  is_working,       \* _is_working
  start_time,       \* _conversation_start_time
  timer,            \* _timer
  working_frame,    \* _working_frame
  liveTimers,       \* interval timers created and not stopped
  timersMade,       \* interval timers created so far
  clock,            \* time.time()
  lastNotified,     \* the last running-state notification
  \* -- the input field
  is_multiline_mode,
  input_value,      \* input_widget.value
  textarea_text,    \* textarea_widget.text
  stored_content,
  trip,             \* the text area's content before the last round trip
  \* -- the application: message submission
  submitted,        \* user messages submitted so far
  worker,           \* where the handling of each submitted message is
  \* -- the application: the confirmation handler
  cpc,              \* where _handle_confirmation_request is
  confirmation_panel,   \* self.confirmation_panel: whose request, mounted?
  decision_future,  \* the result of the future, "unset" while it has none
  chosen,           \* what the user chose in the panel of this request
  cause,            \* how the wait for the decision ended
  returned,         \* what the handler returned
  confirms          \* confirmation requests so far

acpVars == <<active_sessions, constructed, running_tasks, req, task, thread,
             status, events>>
streamVars == <<log, appended, started, sent, wire, ridx, rwire, stats>>
runnerVars == <<rstatus, policy, pending, confActive, running, rpc,
                hasCallback, decision, deferred, deferredVia, msgs, asked,
                rcalls, ui>>
modalVars == <<mOpen, mCfg, mButton, mTrace, mPresses>>
statusVars == <<mounted, is_working, start_time, timer, working_frame,
                liveTimers, timersMade, clock, lastNotified>>
inputVars == <<is_multiline_mode, input_value, textarea_text, stored_content,
               trip>>
submitVars == <<submitted, worker>>
confirmVars == <<cpc, confirmation_panel, decision_future, chosen, cause,
                 returned, confirms>>
appVars == <<submitVars, confirmVars>>
uiVars == <<modalVars, statusVars, inputVars, appVars>>
vars == <<active_sessions, constructed, running_tasks, req, task, thread,
          status, events, log, appended, started, sent, wire, ridx, rwire,
          stats,
          rstatus, policy, pending, confActive, running, rpc, hasCallback,
          decision, deferred, deferredVia, msgs, asked, rcalls, ui,
          mOpen, mCfg, mButton, mTrace, mPresses,
          mounted, is_working, start_time, timer, working_frame, liveTimers,
          timersMade, clock, lastNotified,
          is_multiline_mode, input_value, textarea_text, stored_content, trip,
          submitted, worker, cpc, confirmation_panel, decision_future, chosen,
          cause, returned, confirms>>

NoReq ==
  [kind |-> "none", sid |-> "", pc |-> "idle", conv |-> NoHandle,
   awaited |-> NoTask, paused |-> FALSE, timedOut |-> FALSE, forced |-> FALSE,
   idx |-> 0, calls |-> {}, result |-> "", lookup |-> FALSE,
   notified |-> FALSE, cwd |-> "", setup |-> ""]

NoTaskRec == [state |-> "none", forced |-> FALSE]

TaskDone(t) == task[t].state \in {"done", "failed", "cancelled"}

\* ------------------------------------------------- conversation engine
\* send_message: the message is appended to the conversation's log; a
\* finished conversation becomes ready for the next run.
EngineSendStatus(st) == IF st = "finished" THEN "idle" ELSE st

\* pause(): an explicit pause request moves a running (or confirmation
\* waiting) conversation to PAUSED; any other status is left alone.
EnginePauseStatus(st) == IF st \in {"running", "waiting"} THEN "paused" ELSE st

\* ------------------------------------------------------ session registry
\* (mutant) the cache is never consulted: every lookup builds a conversation.
CacheNeverHit(s) == FALSE

CacheHit(s) == active_sessions[s] # NoHandle

\* How _setup_acp_conversation can end: "ok", or it raised ("missing_spec":
\* MissingAgentSpec or an engine error, an Exception; "invalid_params": the
\* RequestError for a bad MCP configuration or a working directory path that
\* is not a directory).
SetupOutcomes == {"ok", "missing_spec", "invalid_params"}

\* UUID(session_id) succeeds.
WellFormed(s) == s \in Sessions

\* What a working directory path can be when new_session names it.
CwdKinds == {"missing", "dir", "file"}

\* (mutant) a missing working directory is not created.
NoMkdir(cwd) == cwd

\* "if not working_path.exists(): working_path.mkdir(parents=True,
\* exist_ok=True)": what the path is afterwards.
AfterMkdir(cwd) == IF cwd = "missing" THEN "dir" ELSE cwd

\* _setup_acp_conversation in its order: load_agent_specs (out), the
\* working directory check, then Conversation(conversation_id=
\* UUID(session_id)), which raises ValueError for a malformed id.
SetupResult(s, out, cwd) ==
  IF out # "ok" THEN out
  ELSE IF AfterMkdir(cwd) # "dir" THEN "invalid_params"
  ELSE IF ~WellFormed(s) THEN "value_error"
  ELSE "ok"

\* (mutant) the cache entry is written before the construction is known to
\* have succeeded.
GetOrCreateCachesFirst(s, out) ==
  IF CacheHit(s)
  THEN [ok |-> TRUE, h |-> active_sessions[s],
        cache |-> active_sessions, made |-> constructed]
  ELSE [ok |-> out = "ok",
        h |-> IF out = "ok" THEN constructed[s] + 1 ELSE NoHandle,
        cache |-> [active_sessions EXCEPT ![s] = constructed[s] + 1],
        made |-> [constructed EXCEPT ![s] = constructed[s] + 1]]

\* _get_or_create_conversation: the cached handle, or a newly built one that
\* is cached before it is returned.
GetOrCreate(s, out) ==
  IF CacheHit(s)
  THEN [ok |-> TRUE, h |-> active_sessions[s],
        cache |-> active_sessions, made |-> constructed]
  ELSE IF out = "ok"
  THEN [ok |-> TRUE, h |-> constructed[s] + 1,
        cache |-> [active_sessions EXCEPT ![s] = constructed[s] + 1],
        made |-> [constructed EXCEPT ![s] = constructed[s] + 1]]
  ELSE [ok |-> FALSE, h |-> NoHandle,
        cache |-> active_sessions, made |-> constructed]

\* Requests take the slots in order (slot r is used after slot r-1).
Free(r) ==
  /\ req[r].kind = "none"
  /\ IF r = 1 THEN TRUE ELSE req[r - 1].kind # "none"

\* uuid4(): an id no request has named, not cached and not on disk.
Fresh(s) ==
  /\ ~CacheHit(s)
  /\ events[s] = 0
  /\ \A q \in Reqs : req[q].sid # s

\* How a handler ends when the lookup raised: a RequestError is re-raised
\* as it is, any other Exception becomes internal_error.
SetupError(out) ==
  IF out = "invalid_params" THEN "invalid_params" ELSE "internal_error"

\* ------------------------------------------------------------ new_session
\* new_session(cwd, mcp_servers): a fresh id, the conversation set up in
\* the working directory cwd and cached.
NewSession(r, s, out, cwd) ==
  /\ Free(r)
  /\ Fresh(s)
  /\ LET res == SetupResult(s, out, cwd)
         L == GetOrCreate(s, res)
     IN
       /\ req' = [req EXCEPT ![r] =
             [NoReq EXCEPT !.kind = "new", !.sid = s, !.pc = "done",
                           !.conv = L.h, !.lookup = TRUE,
                           !.cwd = cwd, !.setup = out,
                           !.calls = IF out = "ok" /\ AfterMkdir(cwd) # cwd
                                     THEN {"mkdir"} ELSE {},
                           !.result = IF L.ok THEN "ok" ELSE SetupError(res)]]
       /\ active_sessions' = L.cache
       /\ constructed' = L.made
  /\ UNCHANGED <<running_tasks, task, thread, status, events>>
  /\ UNCHANGED <<streamVars, runnerVars, uiVars>>

\* ----------------------------------------------------------------- prompt
\* prompt up to its first await: lookup, send_message, create_task,
\* registration under the session id (lines 312-333).
PromptArrive(r, s, out, empty) ==
  /\ Free(r)
  /\ LET res == SetupResult(s, out, "dir")
         L == GetOrCreate(s, res)
     IN
       /\ active_sessions' = L.cache
       /\ constructed' = L.made
       /\ IF ~L.ok
          THEN /\ req' = [req EXCEPT ![r] =
                    [NoReq EXCEPT !.kind = "prompt", !.sid = s,
                       !.lookup = TRUE,
                       !.pc = IF res = "invalid_params" THEN "done"
                              ELSE "notify_error",
                       !.result = IF res = "invalid_params"
                                  THEN "invalid_params" ELSE ""]]
               /\ UNCHANGED <<running_tasks, task, status, events>>
          ELSE IF empty
          THEN /\ req' = [req EXCEPT ![r] =
                    [NoReq EXCEPT !.kind = "prompt", !.sid = s, !.pc = "done",
                                  !.lookup = TRUE,
                                  !.conv = L.h, !.result = "ok"]]
               /\ UNCHANGED <<running_tasks, task, status, events>>
          ELSE /\ events[s] < MaxEvents
               /\ req' = [req EXCEPT ![r] =
                    [NoReq EXCEPT !.kind = "prompt", !.sid = s,
                                  !.pc = "await_task", !.conv = L.h,
                                  !.lookup = TRUE,
                                  !.calls = {"send_message"}]]
               /\ events' = [events EXCEPT ![s] = @ + 1]
               /\ status' = [status EXCEPT ![s] = EngineSendStatus(@)]
               /\ task' = [task EXCEPT ![r] =
                              [state |-> "pending", forced |-> FALSE]]
               /\ running_tasks' = [running_tasks EXCEPT ![s] = r]
  /\ UNCHANGED thread
  /\ UNCHANGED <<streamVars, runnerVars, uiVars>>

\* The loop starts run_task: asyncio.to_thread hands conversation.run to a
\* worker thread, and run() marks the conversation RUNNING.
TaskStart(t) ==
  /\ task[t].state = "pending"
  /\ task' = [task EXCEPT ![t].state = "running"]
  /\ thread' = [thread EXCEPT ![t] = "running"]
  /\ status' = [status EXCEPT ![req[t].sid] = "running"]
  /\ UNCHANGED <<active_sessions, constructed, running_tasks, req, events>>
  /\ UNCHANGED <<streamVars, runnerVars, uiVars>>

\* The thread's result reaches the task unless the task was cancelled.
ThreadExit(t, how) ==
  [task EXCEPT ![t].state = IF @ = "running" THEN how ELSE @]

\* run() appends an event.
WorkerEmit(t) ==
  /\ thread[t] = "running"
  /\ status[req[t].sid] = "running"
  /\ events[req[t].sid] < MaxEvents
  /\ events' = [events EXCEPT ![req[t].sid] = @ + 1]
  /\ UNCHANGED <<active_sessions, constructed, running_tasks, req, task,
                 thread, status>>
  /\ UNCHANGED <<streamVars, runnerVars, uiVars>>

\* run() returns with the conversation FINISHED.
WorkerFinish(t) ==
  /\ thread[t] = "running"
  /\ status[req[t].sid] \in {"running", "finished"}
  /\ status' = [status EXCEPT ![req[t].sid] = "finished"]
  /\ thread' = [thread EXCEPT ![t] = "exited"]
  /\ task' = ThreadExit(t, "done")
  /\ UNCHANGED <<active_sessions, constructed, running_tasks, req, events>>
  /\ UNCHANGED <<streamVars, runnerVars, uiVars>>

\* run() honours a pause request and returns with the conversation PAUSED.
WorkerObservePause(t) ==
  /\ thread[t] = "running"
  /\ status[req[t].sid] = "paused"
  /\ thread' = [thread EXCEPT ![t] = "exited"]
  /\ task' = ThreadExit(t, "done")
  /\ UNCHANGED <<active_sessions, constructed, running_tasks, req, status,
                 events>>
  /\ UNCHANGED <<streamVars, runnerVars, uiVars>>

\* run() raises.
WorkerRaise(t) ==
  /\ thread[t] = "running"
  /\ status' = [status EXCEPT ![req[t].sid] = "error"]
  /\ thread' = [thread EXCEPT ![t] = "exited"]
  /\ task' = ThreadExit(t, "failed")
  /\ UNCHANGED <<active_sessions, constructed, running_tasks, req, events>>
  /\ UNCHANGED <<streamVars, runnerVars, uiVars>>

\* (mutant) the task is deregistered only when the run succeeded.
PopTaskOnSuccess(r) ==
  IF task[r].state = "done"
  THEN [running_tasks EXCEPT ![req[r].sid] = NoTask]
  ELSE running_tasks

\* (mutant) the finally clause clears the whole registry.
PopAllTasks(r) == [s \in Ids |-> NoTask]

\* "finally: self._running_tasks.pop(session_id, None)": whatever task is
\* registered for the session is removed.
PopTask(r) == [running_tasks EXCEPT ![req[r].sid] = NoTask]

\* prompt after "await run_task": the finally clause; then the result, the
\* except Exception path or a CancelledError that no except clause of prompt
\* catches.
PromptResume(r) ==
  /\ req[r].kind = "prompt"
  /\ req[r].pc = "await_task"
  /\ TaskDone(r)
  /\ running_tasks' = PopTask(r)
  /\ req' = [req EXCEPT ![r] =
        [@ EXCEPT !.pc = IF task[r].state = "failed" THEN "notify_error"
                         ELSE "done",
                  !.result = CASE task[r].state = "done" -> "ok"
                               [] task[r].state = "cancelled" -> "cancelled_error"
                               [] OTHER -> ""]]
  /\ UNCHANGED <<active_sessions, constructed, task, thread, status, events>>
  /\ UNCHANGED <<streamVars, runnerVars, uiVars>>

\* (mutant) the request fails without the inline notification.
PromptNoNotify(r) ==
  /\ req[r].kind = "prompt"
  /\ req[r].pc = "notify_error"
  /\ req' = [req EXCEPT ![r] = [@ EXCEPT !.pc = "raise_error"]]
  /\ UNCHANGED <<active_sessions, constructed, running_tasks, task, thread,
                 status, events>>
  /\ UNCHANGED <<streamVars, runnerVars, uiVars>>

\* except Exception: "await self._conn.sessionUpdate(...)" sends the inline
\* error notification.
PromptNotifyError(r) ==
  /\ req[r].kind = "prompt"
  /\ req[r].pc = "notify_error"
  /\ req' = [req EXCEPT ![r] = [@ EXCEPT !.pc = "raise_error",
                                          !.notified = TRUE]]
  /\ UNCHANGED <<active_sessions, constructed, running_tasks, task, thread,
                 status, events>>
  /\ UNCHANGED <<streamVars, runnerVars, uiVars>>

\* ... then "raise RequestError.internal_error(...)".
PromptRaise(r) ==
  /\ req[r].kind = "prompt"
  /\ req[r].pc = "raise_error"
  /\ req' = [req EXCEPT ![r] = [@ EXCEPT !.pc = "done",
                                          !.result = "internal_error"]]
  /\ UNCHANGED <<active_sessions, constructed, running_tasks, task, thread,
                 status, events>>
  /\ UNCHANGED <<streamVars, runnerVars, uiVars>>

\* ----------------------------------------------------------------- cancel
\* (mutant) the task is awaited without a timeout.
WaitUnbounded == FALSE

\* _wait_for_task_completion awaits with timeout=10.0: the wait is bounded.
WaitBounded == TRUE

\* (mutant) the TimeoutError path is taken whatever the task's state.
WaitForAlwaysTimeout(t) == "timeout"

\* What asyncio.wait_for(task, timeout) can deliver now: the task's outcome
\* once the task is done, TimeoutError while it is not.
WaitFor(t) == IF TaskDone(t) THEN "completed" ELSE "timeout"

\* cancel up to its first await (lines 389-400): lookup, pause(), then
\* return at once unless a registered task is still unfinished.
CancelArrive(r, s, out) ==
  /\ Free(r)
  /\ LET res == SetupResult(s, out, "dir")
         L == GetOrCreate(s, res)
         t == running_tasks[s]
     IN
       /\ active_sessions' = L.cache
       /\ constructed' = L.made
       /\ IF ~L.ok
          THEN /\ req' = [req EXCEPT ![r] =
                    [NoReq EXCEPT !.kind = "cancel", !.sid = s, !.pc = "done",
                                  !.lookup = TRUE,
                                  !.result = SetupError(res)]]
               /\ UNCHANGED status
          ELSE /\ status' = [status EXCEPT ![s] = EnginePauseStatus(@)]
               /\ req' = [req EXCEPT ![r] =
                    [NoReq EXCEPT !.kind = "cancel", !.sid = s, !.conv = L.h,
                       !.lookup = TRUE,
                       !.paused = TRUE, !.calls = {"pause"},
                       !.pc = IF t = NoTask \/ TaskDone(t) THEN "done"
                              ELSE "wait",
                       !.awaited = IF t = NoTask \/ TaskDone(t) THEN NoTask
                                   ELSE t,
                       !.result = IF t = NoTask \/ TaskDone(t) THEN "ok"
                                  ELSE ""]]
  /\ UNCHANGED <<running_tasks, task, thread, events>>
  /\ UNCHANGED <<streamVars, runnerVars, uiVars>>

\* wait_for returns because the task ended: its result, its exception
\* (except Exception -> internal_error), or the CancelledError of a task
\* another cancel force-cancelled, which no except clause here catches.
CancelWaitDone(r) ==
  /\ req[r].kind = "cancel"
  /\ req[r].pc = "wait"
  /\ WaitFor(req[r].awaited) = "completed"
  /\ req' = [req EXCEPT ![r] =
        [@ EXCEPT !.pc = "done",
                  !.result = CASE task[req[r].awaited].state = "done" -> "ok"
                               [] task[req[r].awaited].state = "failed"
                                    -> "internal_error"
                               [] OTHER -> "cancelled_error"]]
  /\ UNCHANGED <<active_sessions, constructed, running_tasks, task, thread,
                 status, events>>
  /\ UNCHANGED <<streamVars, runnerVars, uiVars>>

\* The wait times out (lines 366-371): a warning is logged and the task is
\* cancelled.  Cancelling the task does not stop the thread that
\* asyncio.to_thread started: conversation.run keeps executing in it.
CancelTimeout(r) ==
  /\ req[r].kind = "cancel"
  /\ req[r].pc = "wait"
  /\ WaitBounded
  /\ WaitFor(req[r].awaited) = "timeout"
  /\ req' = [req EXCEPT ![r] =
        [@ EXCEPT !.pc = "ack", !.forced = TRUE,
                  !.timedOut = ~TaskDone(req[r].awaited)]]
  /\ task' = [task EXCEPT ![req[r].awaited] =
                 [state |-> "cancelled", forced |-> TRUE]]
  /\ UNCHANGED <<active_sessions, constructed, running_tasks, thread, status,
                 events>>
  /\ UNCHANGED <<streamVars, runnerVars, uiVars>>

\* "await task" after task.cancel() (lines 372-375): the CancelledError is
\* swallowed and cancel returns.
CancelAck(r) ==
  /\ req[r].kind = "cancel"
  /\ req[r].pc = "ack"
  /\ TaskDone(req[r].awaited)
  /\ req' = [req EXCEPT ![r] = [@ EXCEPT !.pc = "done", !.result = "ok"]]
  /\ UNCHANGED <<active_sessions, constructed, running_tasks, task, thread,
                 status, events>>
  /\ UNCHANGED <<streamVars, runnerVars, uiVars>>

\* ----------------------------------------------------------- load_session
\* load_session up to its first await (lines 430-459): the id must parse as
\* a UUID; then the lookup; an empty log answers at once, otherwise the
\* replay starts at the first stored event.
LoadArrive(r, s, out) ==
  /\ Free(r)
  /\ IF ~WellFormed(s)
     THEN /\ req' = [req EXCEPT ![r] =
               [NoReq EXCEPT !.kind = "load", !.sid = s, !.pc = "done",
                             !.result = "invalid_params"]]
          /\ UNCHANGED <<active_sessions, constructed>>
     ELSE LET res == SetupResult(s, out, "dir")
              L == GetOrCreate(s, res)
          IN
            /\ active_sessions' = L.cache
            /\ constructed' = L.made
            /\ req' = [req EXCEPT ![r] =
                 IF ~L.ok
                 THEN [NoReq EXCEPT !.kind = "load", !.sid = s, !.pc = "done",
                                    !.lookup = TRUE,
                                    !.result = SetupError(res)]
                 ELSE [NoReq EXCEPT !.kind = "load", !.sid = s, !.conv = L.h,
                         !.lookup = TRUE,
                         !.pc = IF events[s] = 0 THEN "done" ELSE "replay",
                         !.result = IF events[s] = 0 THEN "ok" ELSE ""]]
  /\ UNCHANGED <<running_tasks, task, thread, status, events>>
  /\ UNCHANGED <<streamVars, runnerVars, uiVars>>

\* (mutant) load_session runs the conversation once the replay is over.
LoadReplayThenRun(r) ==
  /\ req[r].kind = "load"
  /\ req[r].pc = "replay"
  /\ IF req[r].idx < events[req[r].sid]
     THEN /\ req' = [req EXCEPT ![r] = [@ EXCEPT !.idx = @ + 1]]
          /\ UNCHANGED <<task, running_tasks>>
     ELSE /\ req' = [req EXCEPT ![r] = [@ EXCEPT !.pc = "done", !.result = "ok",
                                                 !.calls = {"run"}]]
          /\ task' = [task EXCEPT ![r] = [state |-> "pending", forced |-> FALSE]]
          /\ running_tasks' = [running_tasks EXCEPT ![req[r].sid] = r]
  /\ UNCHANGED <<active_sessions, constructed, thread, status, events>>
  /\ UNCHANGED <<streamVars, runnerVars, uiVars>>

\* One turn of "for event in conversation.state.events: await
\* subscriber(event)": the next stored event is translated and sent; after
\* the last one load_session answers.
LoadReplay(r) ==
  /\ req[r].kind = "load"
  /\ req[r].pc = "replay"
  /\ req' = [req EXCEPT ![r] =
        IF req[r].idx < events[req[r].sid]
        THEN [@ EXCEPT !.idx = @ + 1]
        ELSE [@ EXCEPT !.pc = "done", !.result = "ok"]]
  /\ UNCHANGED <<active_sessions, constructed, running_tasks, task, thread,
                 status, events>>
  /\ UNCHANGED <<streamVars, runnerVars, uiVars>>

\* ================================================ Part 2: event stream
\* The events of the model: an ActionEvent says whether it carries
\* reasoning_content and thought text and which tool's action it holds; an
\* ObservationEvent names the tool of its observation; a MessageEvent has
\* its role in "tool".  An event is bad when it is malformed: building its
\* visualization or dumping it raises.
Ev(type, reasoning, thought, tool) ==
  [type |-> type, reasoning |-> reasoning, thought |-> thought, tool |-> tool,
   bad |-> FALSE]

Bad(e) == [e EXCEPT !.bad = TRUE]

EventPool ==
  { Ev("action", FALSE, FALSE, "terminal"),
    Ev("action", FALSE, TRUE, "terminal"),
    Ev("action", TRUE, TRUE, "file_editor"),
    Ev("action", FALSE, FALSE, "think"),
    Ev("action", FALSE, TRUE, "finish"),
    Ev("observation", FALSE, FALSE, "terminal"),
    Ev("observation", FALSE, FALSE, "think"),
    Ev("observation", FALSE, FALSE, "task_tracker"),
    Ev("user_reject", FALSE, FALSE, "terminal"),
    Ev("user_reject", FALSE, FALSE, "think"),
    Ev("agent_error", FALSE, FALSE, "terminal"),
    Ev("message", FALSE, FALSE, "user"),
    Ev("message", FALSE, FALSE, "assistant"),
    Ev("system_prompt", FALSE, FALSE, ""),
    Ev("pause", FALSE, FALSE, ""),
    Ev("condensation", FALSE, FALSE, ""),
    Ev("state_update", FALSE, FALSE, ""),
    Ev("unknown", FALSE, FALSE, ""),
    Bad(Ev("action", FALSE, FALSE, "terminal")),
    Bad(Ev("action", FALSE, TRUE, "terminal")),
    Bad(Ev("observation", FALSE, FALSE, "terminal")),
    Bad(Ev("observation", FALSE, FALSE, "task_tracker")),
    Bad(Ev("message", FALSE, FALSE, "assistant")) }

\* _handle_action_event: the reasoning chunk, the thought chunk, then a
\* thought chunk for a think action, a message chunk for a finish action and
\* a tool_call for every other action.  The visualization is built after
\* the two chunks are sent: when it raises, the except clause ends the
\* handler there.
ActionNotes(e) ==
  (IF e.reasoning THEN <<"agent_thought_chunk">> ELSE <<>>)
  \o (IF e.thought THEN <<"agent_thought_chunk">> ELSE <<>>)
  \o (CASE e.bad -> <<>>
        [] e.tool = "think" -> <<"agent_thought_chunk">>
        [] e.tool = "finish" -> <<"agent_message_chunk">>
        [] OTHER -> <<"tool_call">>)

\* _handle_observation_event: nothing for a think or finish observation;
\* a task-tracker observation sends the plan and then falls through to the
\* tool_call_update every other observation, rejection and error sends.
\* The visualization (and, for the tool_call_update, the dump of the event)
\* raises for a bad event.
ObservationNotes(e) ==
  IF e.type = "observation" /\ e.tool \in {"think", "finish"} THEN <<>>
  ELSE IF e.type = "observation" /\ e.tool = "task_tracker"
  THEN <<"plan">> \o (IF e.bad THEN <<>> ELSE <<"tool_call_update">>)
  ELSE IF e.bad THEN <<>>
  ELSE <<"tool_call_update">>

\* _handle_message_event: user messages are not echoed.
MessageNotes(e) ==
  IF e.bad \/ e.tool = "user" THEN <<>> ELSE <<"agent_message_chunk">>

\* EventSubscriber.__call__: the notification kinds one event yields, in the
\* order they are sent (the event's visualization is taken to be non-blank).
Translate(e) ==
  CASE e.type = "state_update" -> <<>>
    [] e.type = "action" -> ActionNotes(e)
    [] e.type \in {"observation", "user_reject", "agent_error"}
         -> ObservationNotes(e)
    [] e.type = "message" -> MessageNotes(e)
    [] e.type \in {"system_prompt", "pause", "condensation",
                   "condensation_request"} -> <<"agent_thought_chunk">>
    [] OTHER -> <<>>

Logs == UNION {[1..n -> EventPool] : n \in 1..MaxLog}

\* load_session builds EventSubscriber(session_id, self._conn): its
\* conversation is None.
ReplayHasConversation == FALSE

\* _setup_acp_conversation sets subscriber.conversation = conversation.
LiveHasConversation == TRUE

\* _get_metadata: None without a conversation or without statistics, else
\* the metrics block.
GetMetadata(hasConv) ==
  IF ~hasConv THEN "none" ELSE IF ~stats THEN "none" ELSE "metrics"

\* The _meta of a notification: every notification but the plan is built
\* with field_meta=self._get_metadata().
Meta(kind, hasConv) == IF kind = "plan" THEN "none" ELSE GetMetadata(hasConv)

Tag(i, kinds, from, to, hasConv) ==
  [k \in 1..(to - from) |->
     [ev |-> i, kind |-> kinds[from + k], meta |-> Meta(kinds[from + k], hasConv)]]

\* conversation.run appends the next event; sync_callback hands
\* subscriber(event) to the loop with run_coroutine_threadsafe.
EngineAppend ==
  /\ appended < Len(log)
  /\ appended' = appended + 1
  /\ UNCHANGED <<log, started, sent, wire, ridx, rwire, stats>>
  /\ UNCHANGED <<acpVars, runnerVars, uiVars>>

\* The loop starts the submitted coroutines in submission order.  A
\* coroutine runs up to its first "await self.conn.sessionUpdate(...)", which
\* sends its first notification, or to its end when it sends none.
HandlerStart(i) ==
  /\ i = started + 1
  /\ i <= appended
  /\ started' = i
  /\ LET n == Len(Translate(log[i]))
         k == IF n = 0 THEN 0 ELSE 1
     IN /\ sent' = [sent EXCEPT ![i] = k]
        /\ wire' = wire \o Tag(i, Translate(log[i]), 0, k, LiveHasConversation)
  /\ UNCHANGED <<log, appended, ridx, rwire, stats>>
  /\ UNCHANGED <<acpVars, runnerVars, uiVars>>

\* A coroutine suspended in sessionUpdate is resumed and runs to its next
\* sessionUpdate; coroutines of different events resume in any order.
HandlerResume(i) ==
  /\ i <= started
  /\ sent[i] >= 1
  /\ sent[i] < Len(Translate(log[i]))
  /\ sent' = [sent EXCEPT ![i] = @ + 1]
  /\ wire' = wire \o Tag(i, Translate(log[i]), sent[i], sent[i] + 1,
                         LiveHasConversation)
  /\ UNCHANGED <<log, appended, started, ridx, rwire, stats>>
  /\ UNCHANGED <<acpVars, runnerVars, uiVars>>

LiveDone ==
  /\ appended = Len(log)
  /\ started = Len(log)
  /\ \A i \in 1..Len(log) : sent[i] = Len(Translate(log[i]))

\* load_session after the run: "for event in conversation.state.events:
\* await subscriber(event)" handles one stored event after the other, each
\* to its end.
ReplayEvent ==
  /\ LiveDone
  /\ ridx < Len(log)
  /\ ridx' = ridx + 1
  /\ rwire' = rwire \o Tag(ridx + 1, Translate(log[ridx + 1]), 0,
                           Len(Translate(log[ridx + 1])),
                           ReplayHasConversation)
  /\ UNCHANGED <<log, appended, started, sent, wire, stats>>
  /\ UNCHANGED <<acpVars, runnerVars, uiVars>>

ReplayDone == LiveDone /\ ridx = Len(log)

NextStream ==
  \/ EngineAppend
  \/ \E i \in 1..MaxLog : HandlerStart(i)
  \/ \E i \in 1..MaxLog : HandlerResume(i)
  \/ ReplayEvent

\* ========================================= Part 3: conversation runner
Decisions == {"accept", "reject", "defer", "always_proceed", "confirm_risky"}

Policies == {"always", "never", "risky"}

Has(calls, c) == \E k \in 1..Len(calls) : calls[k] = c

NoUi == [op |-> "none", calls |-> <<>>]

\* reject_pending_actions: every pending action gets a rejection event, so
\* none is pending afterwards.
EngineReject(n) == 0

\* (mutant) the policy is not replaced.
ChangePolicyIgnored(p) == UNCHANGED <<policy, confActive>>

\* _change_confirmation_policy: the policy is set on the conversation and
\* _confirmation_mode_active follows it.
ChangePolicy(p) ==
  /\ policy' = p
  /\ confActive' = (p # "never")

\* (mutant) DEFER does not leave the run loop.
DeferNeverExits(d) == FALSE

\* "if user_confirmation == UserConfirmation.DEFER: return"
DeferExits(d) == d = "defer"

\* (mutant) the decision callback is consulted whatever is pending.
DecisionsAlwaysAsked == Decisions

\* The decision of _handle_confirmation_request: ACCEPT without asking when
\* no action is pending or no callback is set, else what the callback says.
DecisionsNow ==
  IF pending = 0 \/ ~hasCallback THEN {"accept"} ELSE Decisions

\* Whether _handle_confirmation_request invokes the decision callback.
CallbackCalls ==
  IF pending > 0 /\ hasCallback THEN <<"confirmation_callback">> ELSE <<>>

\* (mutant) REJECT is returned without rejecting anything.
DecisionCallsNoReject(d) ==
  CASE d = "defer" -> <<"pause">>
    [] d \in {"always_proceed", "confirm_risky"} -> <<"set_confirmation_policy">>
    [] OTHER -> <<>>

\* "Handle the user's decision": the engine call each decision leads to.
DecisionCalls(d) ==
  CASE d = "reject" -> <<"reject_pending_actions">>
    [] d = "defer" -> <<"pause">>
    [] d \in {"always_proceed", "confirm_risky"} -> <<"set_confirmation_policy">>
    [] OTHER -> <<>>

\* (mutant) REJECT also switches the policy back to AlwaysConfirm.
NewPolicyOnReject(d) ==
  CASE d = "always_proceed" -> "never"
    [] d = "confirm_risky" -> "risky"
    [] d = "reject" -> "always"
    [] OTHER -> "keep"

\* The policy a decision asks for: NeverConfirm for ALWAYS_PROCEED,
\* ConfirmRisky for CONFIRM_RISKY, and no change ("keep") for the others.
NewPolicy(d) ==
  CASE d = "always_proceed" -> "never"
    [] d = "confirm_risky" -> "risky"
    [] OTHER -> "keep"

\* (mutant) an exception of the run is swallowed without a notification.
Unreported == <<"raise">>

\* "except ConversationRunError / except Exception" of
\* _run_conversation_sync: the exception is handed to the notification
\* callback.
Reported == <<"raise", "notification_callback">>

\* (mutant) a paused conversation is put to the decision callback as well.
NeedsConfirmationOrPaused(st) == st \in {"waiting", "paused"}

\* The loop's test after run(): only WAITING_FOR_CONFIRMATION leads to a
\* confirmation request; FINISHED and every other status leave the loop.
NeedsConfirmation(st) == st = "waiting"

\* _handle_confirmation_request with decision d, at "pre" (before the loop)
\* or "loop" (after a run() that stopped for confirmation), and the
\* caller's reaction: return on DEFER, else go on to the next run().
HandleConfirmation(d, where) ==
  /\ d \in DecisionsNow
  /\ decision' = d
  /\ rcalls' = <<"get_unmatched_actions">> \o CallbackCalls \o DecisionCalls(d)
  /\ asked' = (asked \/ Len(CallbackCalls) > 0)
  /\ pending' = IF Has(DecisionCalls(d), "reject_pending_actions")
                THEN EngineReject(pending) ELSE pending
  /\ rstatus' = IF Has(DecisionCalls(d), "pause")
                THEN EnginePauseStatus(rstatus) ELSE rstatus
  /\ IF NewPolicy(d) # "keep" THEN ChangePolicy(NewPolicy(d))
     ELSE UNCHANGED <<policy, confActive>>
  /\ deferred' = (d = "defer")
  /\ deferredVia' = IF d = "defer" THEN deferredVia \cup {where}
                    ELSE deferredVia
  /\ rpc' = IF DeferExits(d) THEN "finally" ELSE "loop_run"

\* _handle_user_message / process_message_async: a message is processed by
\* a worker when no run is in progress; _update_run_status(True).
ProcessMessage ==
  /\ rpc = "idle"
  /\ ~running
  /\ msgs < MaxMsgs
  /\ msgs' = msgs + 1
  /\ running' = TRUE
  /\ rpc' = "send"
  /\ deferred' = FALSE
  /\ rcalls' = <<>>
  /\ UNCHANGED <<rstatus, policy, pending, confActive, hasCallback, decision,
                 deferredVia, asked, ui>>
  /\ UNCHANGED <<acpVars, streamVars, uiVars>>

\* conversation.send_message(message), then the choice between the
\* confirmation loop and a plain run(); a raise goes to the finally clause.
SendMessage(ok) ==
  /\ rpc = "send"
  /\ rcalls' = <<"send_message">> \o (IF ok THEN <<>> ELSE Reported)
  /\ IF ok
     THEN /\ rstatus' = EngineSendStatus(rstatus)
          /\ rpc' = IF confActive THEN "pre" ELSE "plain_run"
     ELSE /\ rpc' = "finally"
          /\ UNCHANGED rstatus
  /\ UNCHANGED <<policy, pending, confActive, running, hasCallback, decision,
                 deferred, deferredVia, msgs, asked, ui>>
  /\ UNCHANGED <<acpVars, streamVars, uiVars>>

\* _run_with_confirmation before the loop: a conversation that is already
\* waiting for confirmation gets its confirmation request first.
PreLoop(d) ==
  /\ rpc = "pre"
  /\ IF rstatus = "waiting"
     THEN HandleConfirmation(d, "pre")
     ELSE /\ d = "accept"
          /\ rpc' = "loop_run"
          /\ rcalls' = <<>>
          /\ UNCHANGED <<rstatus, policy, pending, confActive, decision,
                         deferred, deferredVia, asked>>
  /\ UNCHANGED <<running, hasCallback, msgs, ui>>
  /\ UNCHANGED <<acpVars, streamVars, uiVars>>

\* conversation.run() is entered: the engine runs the pending actions of a
\* waiting conversation and goes on.
RunCall ==
  /\ rpc \in {"loop_run", "plain_run"}
  /\ rpc' = IF rpc = "loop_run" THEN "in_loop_run" ELSE "in_plain_run"
  /\ rcalls' = <<"run">>
  /\ rstatus' = "running"
  /\ pending' = 0
  /\ asked' = FALSE
  /\ UNCHANGED <<policy, confActive, running, hasCallback, decision, deferred,
                 deferredVia, msgs, ui>>
  /\ UNCHANGED <<acpVars, streamVars, uiVars>>

\* How run() can end: paused when a pause was requested meanwhile; else
\* finished, an error, or waiting for confirmation of n pending actions
\* when the policy asks for confirmation.
RunOutcomes ==
  IF rstatus = "paused" THEN {[st |-> "paused", n |-> 0]}
  ELSE {[st |-> "finished", n |-> 0], [st |-> "error", n |-> 0]}
       \cup (IF policy = "never" THEN {}
             ELSE {[st |-> "waiting", n |-> n] : n \in 0..MaxPending})

\* run() returns (or raises: "error") and leaves the status and the
\* pending actions behind.  A raise, and any return of the plain run(), goes
\* to the finally clause; in the loop the status is examined next.
RunReturns(o) ==
  /\ rpc \in {"in_loop_run", "in_plain_run"}
  /\ o \in RunOutcomes
  /\ rstatus' = o.st
  /\ pending' = o.n
  /\ rcalls' = IF o.st = "error" THEN Reported ELSE <<>>
  /\ rpc' = IF rpc = "in_plain_run" \/ o.st = "error" THEN "finally"
            ELSE "loop_check"
  /\ UNCHANGED <<policy, confActive, running, hasCallback, decision, deferred,
                 deferredVia, msgs, asked, ui>>
  /\ UNCHANGED <<acpVars, streamVars, uiVars>>

\* The loop after run(): FINISHED leaves the loop, WAITING_FOR_CONFIRMATION
\* gets a confirmation request, any other status leaves the loop.
LoopCheck(d) ==
  /\ rpc = "loop_check"
  /\ IF NeedsConfirmation(rstatus)
     THEN HandleConfirmation(d, "loop")
     ELSE /\ d = "accept"
          /\ rpc' = "finally"
          /\ rcalls' = <<"break">>
          /\ UNCHANGED <<rstatus, policy, pending, confActive, decision,
                         deferred, deferredVia, asked>>
  /\ UNCHANGED <<running, hasCallback, msgs, ui>>
  /\ UNCHANGED <<acpVars, streamVars, uiVars>>

\* The decision callback raises inside _handle_confirmation_request: the
\* exception leaves _run_with_confirmation and reaches the except clauses
\* of _run_conversation_sync.
ConfirmationRaises ==
  /\ rpc \in {"pre", "loop_check"}
  /\ rstatus = "waiting"
  /\ Len(CallbackCalls) > 0
  /\ rcalls' = <<"get_unmatched_actions">> \o CallbackCalls \o Reported
  /\ asked' = TRUE
  /\ decision' = "none"
  /\ rpc' = "finally"
  /\ UNCHANGED <<rstatus, policy, pending, confActive, running, hasCallback,
                 deferred, deferredVia, msgs, ui>>
  /\ UNCHANGED <<acpVars, streamVars, uiVars>>

\* finally: _update_run_status(False).
RunEnds ==
  /\ rpc = "finally"
  /\ running' = FALSE
  /\ rpc' = "idle"
  /\ rcalls' = <<>>
  /\ UNCHANGED <<rstatus, policy, pending, confActive, hasCallback, decision,
                 deferred, deferredVia, msgs, asked, ui>>
  /\ UNCHANGED <<acpVars, streamVars, uiVars>>

\* ConversationRunner.pause from the UI: conversation.pause() while a run
\* is in progress.
UserPause ==
  /\ running
  /\ rstatus' = EnginePauseStatus(rstatus)
  /\ rstatus' # rstatus
  /\ ui' = [op |-> "pause", calls |-> <<"pause">>]
  /\ UNCHANGED <<policy, pending, confActive, running, rpc, hasCallback,
                 decision, deferred, deferredVia, msgs, asked, rcalls>>
  /\ UNCHANGED <<acpVars, streamVars, uiVars>>

\* (mutant) toggling also rejects the pending actions.
ToggleAndReject ==
  /\ ChangePolicy(IF ~confActive THEN "always" ELSE "never")
  /\ pending' = EngineReject(pending)
  /\ ui' = [op |-> "toggle_confirmation_mode",
            calls |-> <<"set_confirmation_policy", "reject_pending_actions">>]
  /\ UNCHANGED <<rstatus, running, rpc, hasCallback, decision,
                 deferred, deferredVia, msgs, asked, rcalls>>
  /\ UNCHANGED <<acpVars, streamVars, uiVars>>

\* toggle_confirmation_mode from the UI.
ToggleConfirmationMode ==
  /\ ChangePolicy(IF ~confActive THEN "always" ELSE "never")
  /\ ui' = [op |-> "toggle_confirmation_mode",
            calls |-> <<"set_confirmation_policy">>]
  /\ UNCHANGED <<rstatus, pending, running, rpc, hasCallback, decision,
                 deferred, deferredVia, msgs, asked, rcalls>>
  /\ UNCHANGED <<acpVars, streamVars, uiVars>>

\* set_confirmation_policy, called with the policy chosen in the /confirm
\* settings modal: the conversation's policy is replaced, and
\* _confirmation_mode_active is not touched.
SetConfirmationPolicy(p) ==
  /\ policy' = p
  /\ ui' = [op |-> "set_confirmation_policy",
            calls |-> <<"set_confirmation_policy">>]
  /\ UNCHANGED <<rstatus, pending, confActive, running, rpc, hasCallback,
                 decision, deferred, deferredVia, msgs, asked, rcalls>>
  /\ UNCHANGED <<acpVars, streamVars, uiVars>>

NextRunner ==
  \/ ProcessMessage
  \/ \E ok \in BOOLEAN : SendMessage(ok)
  \/ \E d \in Decisions : PreLoop(d)
  \/ RunCall
  \/ \E o \in RunOutcomes : RunReturns(o)
  \/ \E d \in Decisions : LoopCheck(d)
  \/ ConfirmationRaises
  \/ RunEnds
  \/ UserPause
  \/ ToggleConfirmationMode
  \/ \E p \in Policies : SetConfirmationPolicy(p)

\* ============================================================== part 4
\* ------------------------------------------------ exit confirmation modal
Buttons == {"yes", "no"}

\* What the modal is built with: whether each callback is given, and whether
\* the callback that ends up installed raises when called.
Callbacks ==
  [confirmedGiven : BOOLEAN, cancelledGiven : BOOLEAN,
   confirmedRaises : BOOLEAN, cancelledRaises : BOOLEAN]

\* ExitConfirmationModal() as _handle_exit builds it: the default
\* on_exit_confirmed (app.exit) and no on_exit_cancelled.
NoCallbacks ==
  [confirmedGiven |-> FALSE, cancelledGiven |-> FALSE,
   confirmedRaises |-> FALSE, cancelledRaises |-> FALSE]

\* try: callback() except Exception: notify(...)
Guarded(name, raises) ==
  <<name>> \o (IF raises THEN <<"notify">> ELSE <<>>)

\* A variant of the handler that calls the callback before it dismisses.
CallbackThenDismiss(button, cfg) ==
  (IF button = "yes"
     THEN Guarded("on_exit_confirmed", cfg.confirmedRaises)
     ELSE IF cfg.cancelledGiven
       THEN Guarded("on_exit_cancelled", cfg.cancelledRaises)
       ELSE <<>>)
  \o <<"dismiss">>

\* on_button_pressed: the calls it makes, in order.
ButtonPressed(button, cfg) ==
  <<"dismiss">> \o
  (IF button = "yes"
     THEN Guarded("on_exit_confirmed", cfg.confirmedRaises)
     ELSE IF cfg.cancelledGiven
       THEN Guarded("on_exit_cancelled", cfg.cancelledRaises)
       ELSE <<>>)

\* The application pushes the modal on the screen.
PushModal(cfg) ==
  /\ ~mOpen
  /\ mPresses < MaxPresses
  /\ cfg.cancelledRaises => cfg.cancelledGiven
  /\ mOpen' = TRUE
  /\ mCfg' = cfg
  /\ mButton' = "none"
  /\ mTrace' = <<>>
  /\ UNCHANGED mPresses
  /\ UNCHANGED <<acpVars, streamVars, runnerVars, statusVars, inputVars,
                 appVars>>

\* A button of the modal is pressed.
OnButtonPressed(button) ==
  /\ mOpen
  /\ mOpen' = FALSE
  /\ mButton' = button
  /\ mTrace' = ButtonPressed(button, mCfg)
  /\ mPresses' = mPresses + 1
  /\ UNCHANGED mCfg
  /\ UNCHANGED <<acpVars, streamVars, runnerVars, statusVars, inputVars,
                 appVars>>

NextModal ==
  \/ \E cfg \in Callbacks : PushModal(cfg)
  \/ \E b \in Buttons : OnButtonPressed(b)

\* ---------------------------------------------------- working status line
NoTime == 0
NoTimer == 0
Frames == 8

\* A variant of stopping that leaves the old timer running.
LeaveTimer(live, t) == live

\* Timer.stop() of timer t.
StopTimer(live, t) == live \ {t}

\* _on_conversation_state_changed(is_running); the signal only reaches a
\* mounted widget.
OnConversationStateChanged(is_running) ==
  /\ mounted
  /\ is_running => timersMade < MaxTimers
  /\ is_working' = is_running
  /\ lastNotified' = IF is_running THEN "running" ELSE "stopped"
  /\ IF is_running
       THEN /\ start_time' = clock
            /\ timersMade' = timersMade + 1
            /\ timer' = timersMade + 1
            /\ liveTimers' =
                 (IF timer # NoTimer THEN StopTimer(liveTimers, timer)
                                     ELSE liveTimers)
                 \cup {timersMade + 1}
       ELSE /\ start_time' = NoTime
            /\ timer' = NoTimer
            /\ liveTimers' =
                 (IF timer # NoTimer THEN StopTimer(liveTimers, timer)
                                     ELSE liveTimers)
            /\ UNCHANGED timersMade
  /\ UNCHANGED <<mounted, working_frame, clock>>
  /\ UNCHANGED <<acpVars, streamVars, runnerVars, modalVars, inputVars,
                 appVars>>

\* _on_tick, called by a live interval timer.
OnTick(t) ==
  /\ t \in liveTimers
  /\ working_frame' =
       IF start_time # NoTime /\ is_working
         THEN (working_frame + 1) % Frames
         ELSE working_frame
  /\ UNCHANGED <<mounted, is_working, start_time, timer, liveTimers,
                 timersMade, clock, lastNotified>>
  /\ UNCHANGED <<acpVars, streamVars, runnerVars, modalVars, inputVars,
                 appVars>>

\* on_unmount
OnUnmount ==
  /\ mounted
  /\ mounted' = FALSE
  /\ timer' = NoTimer
  /\ liveTimers' =
       (IF timer # NoTimer THEN StopTimer(liveTimers, timer) ELSE liveTimers)
  /\ UNCHANGED <<is_working, start_time, working_frame, timersMade, clock,
                 lastNotified>>
  /\ UNCHANGED <<acpVars, streamVars, runnerVars, modalVars, inputVars,
                 appVars>>

\* time.time() advances.
ClockAdvance ==
  /\ clock < MaxClock
  /\ clock' = clock + 1
  /\ UNCHANGED <<mounted, is_working, start_time, timer, working_frame,
                 liveTimers, timersMade, lastNotified>>
  /\ UNCHANGED <<acpVars, streamVars, runnerVars, modalVars, inputVars,
                 appVars>>

NextStatus ==
  \/ \E b \in BOOLEAN : OnConversationStateChanged(b)
  \/ \E t \in 1..MaxTimers : OnTick(t)
  \/ OnUnmount
  \/ ClockAdvance

\* ------------------------------------------------------------ input field
\* A text is a sequence of characters; these four tell the cases apart: a
\* letter, a backslash, the letter n and a newline.
Chars == {"a", "BACKSLASH", "n", "NEWLINE"}

RECURSIVE TextsOfLen(_)
TextsOfLen(n) ==
  IF n = 0 THEN {<<>>}
  ELSE {<<c>> \o t : c \in Chars, t \in TextsOfLen(n - 1)}

Texts == UNION {TextsOfLen(n) : n \in 0..MaxText}

\* The single-line Input holds no newline.
Lines == {t \in Texts : \A k \in 1..Len(t) : t[k] # "NEWLINE"}

\* text.replace("\n", "\\n")
RECURSIVE NewlinesToLiteral(_)
NewlinesToLiteral(t) ==
  IF t = <<>> THEN <<>>
  ELSE (IF Head(t) = "NEWLINE" THEN <<"BACKSLASH", "n">> ELSE <<Head(t)>>)
       \o NewlinesToLiteral(Tail(t))

\* value.replace("\\n", "\n"): leftmost matches, not overlapping.
RECURSIVE LiteralToNewlines(_)
LiteralToNewlines(t) ==
  IF t = <<>> THEN <<>>
  ELSE IF Len(t) >= 2 /\ t[1] = "BACKSLASH" /\ t[2] = "n"
    THEN <<"NEWLINE">> \o LiteralToNewlines(SubSeq(t, 3, Len(t)))
    ELSE <<Head(t)>> \o LiteralToNewlines(Tail(t))

NoTrip == [stage |-> "none", text |-> <<>>]

\* The user edits the text area (multi-line mode).
EditTextArea(t) ==
  /\ is_multiline_mode
  /\ t # textarea_text
  /\ textarea_text' = t
  /\ trip' = NoTrip
  /\ UNCHANGED <<is_multiline_mode, input_value, stored_content>>
  /\ UNCHANGED <<acpVars, streamVars, runnerVars, modalVars, statusVars,
                 appVars>>

\* The user edits the input (single-line mode).
EditInput(t) ==
  /\ ~is_multiline_mode
  /\ t # input_value
  /\ input_value' = t
  /\ trip' = NoTrip
  /\ UNCHANGED <<is_multiline_mode, textarea_text, stored_content>>
  /\ UNCHANGED <<acpVars, streamVars, runnerVars, modalVars, statusVars,
                 appVars>>

\* action_toggle_input_mode
ActionToggleInputMode ==
  /\ IF is_multiline_mode
       THEN /\ stored_content' = NewlinesToLiteral(textarea_text)
            /\ input_value' = NewlinesToLiteral(textarea_text)
            /\ is_multiline_mode' = FALSE
            /\ trip' = [stage |-> "single", text |-> textarea_text]
            /\ UNCHANGED textarea_text
       ELSE /\ stored_content' = LiteralToNewlines(input_value)
            /\ textarea_text' = LiteralToNewlines(input_value)
            /\ is_multiline_mode' = TRUE
            /\ trip' = IF trip.stage = "single"
                         THEN [trip EXCEPT !.stage = "back"]
                         ELSE NoTrip
            /\ UNCHANGED input_value
  /\ UNCHANGED <<acpVars, streamVars, runnerVars, modalVars, statusVars,
                 appVars>>

NextInput ==
  \/ \E t \in Texts : EditTextArea(t)
  \/ \E t \in Lines : EditInput(t)
  \/ ActionToggleInputMode

\* ------------------------------------------- application: user messages
\* The runner's fields that the handling of a message leaves alone here.
runnerRest == <<rstatus, policy, pending, confActive, rpc, hasCallback,
                decision, deferred, deferredVia, msgs, asked, rcalls, ui>>

\* _handle_user_message on the UI loop: a message that finds is_running set
\* is queued on the conversation; any other is given to a new worker, which
\* run_worker only schedules.
HandleUserMessage ==
  /\ submitted < MaxSubmits
  /\ submitted' = submitted + 1
  /\ worker' = [worker EXCEPT ![submitted + 1] =
                  IF running THEN "queued" ELSE "scheduled"]
  /\ UNCHANGED running
  /\ UNCHANGED <<acpVars, streamVars, runnerRest, modalVars, statusVars,
                 inputVars, confirmVars>>

\* The worker's thread enters _run_conversation_sync:
\* _update_run_status(True).
WorkerBegin(m) ==
  /\ worker[m] = "scheduled"
  /\ worker' = [worker EXCEPT ![m] = "started"]
  /\ running' = TRUE
  /\ UNCHANGED submitted
  /\ UNCHANGED <<acpVars, streamVars, runnerRest, modalVars, statusVars,
                 inputVars, confirmVars>>

\* send_message and the run, to the point where they returned or raised.
WorkerBody(m) ==
  /\ worker[m] = "started"
  /\ worker' = [worker EXCEPT ![m] = "ran"]
  /\ UNCHANGED <<submitted, running>>
  /\ UNCHANGED <<acpVars, streamVars, runnerRest, modalVars, statusVars,
                 inputVars, confirmVars>>

\* finally: _update_run_status(False).
WorkerFinally(m) ==
  /\ worker[m] = "ran"
  /\ worker' = [worker EXCEPT ![m] = "done"]
  /\ running' = FALSE
  /\ UNCHANGED submitted
  /\ UNCHANGED <<acpVars, streamVars, runnerRest, modalVars, statusVars,
                 inputVars, confirmVars>>

NextSubmit ==
  \/ HandleUserMessage
  \/ \E m \in 1..MaxSubmits : WorkerBegin(m)
  \/ \E m \in 1..MaxSubmits : WorkerBody(m)
  \/ \E m \in 1..MaxSubmits : WorkerFinally(m)

\* ------------------------------- application: the confirmation handler
\* self.confirmation_panel is None.
NoPanel == [owner |-> 0, mounted |-> FALSE]

\* How show_confirmation_panel can go: it mounts the panel, or removing the
\* old panel raises, or building and mounting the new one raises.
ShowOutcomes == {"ok", "remove_raises", "mount_raises"}

\* (mutant) without a decision the handler lets the actions proceed.
NoDecisionAccepts == "accept"

\* "If there's an error / If timeout or error, default to DEFER".
NoDecision == "defer"

\* The worker calls _handle_confirmation_request: a new future, and
\* show_confirmation_panel is handed to the UI thread.
ConfirmationRequest ==
  /\ cpc = "idle"
  /\ confirms < MaxConfirms
  /\ confirms' = confirms + 1
  /\ cpc' = "show"
  /\ decision_future' = "unset"
  /\ chosen' = "none"
  /\ cause' = "none"
  /\ returned' = "none"
  /\ UNCHANGED confirmation_panel
  /\ UNCHANGED <<acpVars, streamVars, runnerVars, modalVars, statusVars,
                 inputVars, submitVars>>

\* show_confirmation_panel on the UI thread; call_from_thread returns to the
\* worker when it is over.  An exception resolves the future with DEFER.
ShowConfirmationPanel(out) ==
  /\ cpc = "show"
  /\ out = "remove_raises" => confirmation_panel # NoPanel
  /\ cpc' = "wait"
  /\ confirmation_panel' =
       CASE out = "ok" -> [owner |-> confirms, mounted |-> TRUE]
         [] out = "mount_raises" -> [owner |-> confirms, mounted |-> FALSE]
         [] OTHER -> confirmation_panel
  /\ decision_future' =
       IF out # "ok" /\ decision_future = "unset" THEN NoDecision
       ELSE decision_future
  /\ UNCHANGED <<chosen, cause, returned, confirms>>
  /\ UNCHANGED <<acpVars, streamVars, runnerVars, modalVars, statusVars,
                 inputVars, submitVars>>

\* on_confirmation_decision, called by the mounted panel with the user's
\* decision: the panel is removed and the future of the panel's request is
\* resolved unless it is done (or its handler has returned already).
OnConfirmationDecision(d) ==
  /\ confirmation_panel.mounted
  /\ confirmation_panel' = NoPanel
  /\ IF confirmation_panel.owner = confirms /\ cpc = "wait"
        /\ decision_future = "unset"
     THEN /\ decision_future' = d
          /\ chosen' = d
     ELSE UNCHANGED <<decision_future, chosen>>
  /\ UNCHANGED <<cpc, cause, returned, confirms>>
  /\ UNCHANGED <<acpVars, streamVars, runnerVars, modalVars, statusVars,
                 inputVars, submitVars>>

\* decision_future.result(timeout=300) returns the result.
WaitReturns ==
  /\ cpc = "wait"
  /\ decision_future # "unset"
  /\ returned' = decision_future
  /\ cause' = "result"
  /\ cpc' = "idle"
  /\ UNCHANGED <<confirmation_panel, decision_future, chosen, confirms>>
  /\ UNCHANGED <<acpVars, streamVars, runnerVars, modalVars, statusVars,
                 inputVars, submitVars>>

\* decision_future.result(timeout=300) raises: no result within the timeout,
\* or another error of the wait.
WaitRaises(why) ==
  /\ cpc = "wait"
  /\ decision_future = "unset"
  /\ returned' = NoDecision
  /\ cause' = why
  /\ cpc' = "idle"
  /\ UNCHANGED <<confirmation_panel, decision_future, chosen, confirms>>
  /\ UNCHANGED <<acpVars, streamVars, runnerVars, modalVars, statusVars,
                 inputVars, submitVars>>

NextConfirm ==
  \/ ConfirmationRequest
  \/ \E out \in ShowOutcomes : ShowConfirmationPanel(out)
  \/ \E d \in Decisions : OnConfirmationDecision(d)
  \/ WaitReturns
  \/ \E why \in {"timeout", "error"} : WaitRaises(why)

\* ----------------------------------------------------------------- Specs
\* The ACP server after construction: nothing cached, nothing running; a
\* session may have a stored conversation on disk.
Init ==
  /\ active_sessions = [s \in Ids |-> NoHandle]
  /\ constructed = [s \in Ids |-> 0]
  /\ running_tasks = [s \in Ids |-> NoTask]
  /\ req = [r \in Reqs |-> NoReq]
  /\ task = [r \in Reqs |-> NoTaskRec]
  /\ thread = [r \in Reqs |-> "none"]
  /\ status = [s \in Ids |-> "idle"]
  /\ events \in [Ids -> {0, 1}]
  /\ \A s \in Malformed : events[s] = 0
  /\ log = <<>> /\ appended = 0 /\ started = 0 /\ sent = <<>>
  /\ wire = <<>> /\ ridx = 0 /\ rwire = <<>> /\ stats = FALSE
  /\ rstatus = "idle" /\ policy = "always" /\ pending = 0
  /\ confActive = TRUE /\ running = FALSE /\ rpc = "idle"
  /\ hasCallback = TRUE /\ decision = "none" /\ deferred = FALSE
  /\ deferredVia = {} /\ msgs = 0
  /\ asked = FALSE /\ rcalls = <<>> /\ ui = NoUi
  /\ mOpen = FALSE /\ mCfg = NoCallbacks /\ mButton = "none"
  /\ mTrace = <<>> /\ mPresses = 0
  /\ mounted = TRUE /\ is_working = FALSE /\ start_time = NoTime
  /\ timer = NoTimer /\ working_frame = 0 /\ liveTimers = {}
  /\ timersMade = 0 /\ clock = 1 /\ lastNotified = "none"
  /\ is_multiline_mode = FALSE /\ input_value = <<>>
  /\ textarea_text = <<>> /\ stored_content = <<>> /\ trip = NoTrip
  /\ submitted = 0 /\ worker = [m \in 1..MaxSubmits |-> "none"]
  /\ cpc = "idle" /\ confirmation_panel = NoPanel
  /\ decision_future = "unset" /\ chosen = "none" /\ cause = "none"
  /\ returned = "none" /\ confirms = 0

\* A live run of one session that is about to append the events of log.
InitStream ==
  /\ active_sessions = [s \in Ids |-> NoHandle]
  /\ constructed = [s \in Ids |-> 0]
  /\ running_tasks = [s \in Ids |-> NoTask]
  /\ req = [r \in Reqs |-> NoReq]
  /\ task = [r \in Reqs |-> NoTaskRec]
  /\ thread = [r \in Reqs |-> "none"]
  /\ status = [s \in Ids |-> "idle"]
  /\ events = [s \in Ids |-> 0]
  /\ log \in Logs
  /\ appended = 0
  /\ started = 0
  /\ sent = [i \in 1..Len(log) |-> 0]
  /\ wire = <<>>
  /\ ridx = 0
  /\ rwire = <<>>
  /\ stats \in BOOLEAN
  /\ rstatus = "idle" /\ policy = "always" /\ pending = 0
  /\ confActive = TRUE /\ running = FALSE /\ rpc = "idle"
  /\ hasCallback = TRUE /\ decision = "none" /\ deferred = FALSE
  /\ deferredVia = {} /\ msgs = 0
  /\ asked = FALSE /\ rcalls = <<>> /\ ui = NoUi
  /\ mOpen = FALSE /\ mCfg = NoCallbacks /\ mButton = "none"
  /\ mTrace = <<>> /\ mPresses = 0
  /\ mounted = TRUE /\ is_working = FALSE /\ start_time = NoTime
  /\ timer = NoTimer /\ working_frame = 0 /\ liveTimers = {}
  /\ timersMade = 0 /\ clock = 1 /\ lastNotified = "none"
  /\ is_multiline_mode = FALSE /\ input_value = <<>>
  /\ textarea_text = <<>> /\ stored_content = <<>> /\ trip = NoTrip
  /\ submitted = 0 /\ worker = [m \in 1..MaxSubmits |-> "none"]
  /\ cpc = "idle" /\ confirmation_panel = NoPanel
  /\ decision_future = "unset" /\ chosen = "none" /\ cause = "none"
  /\ returned = "none" /\ confirms = 0

\* ConversationRunner.__init__: the starting policy (AlwaysConfirm when none
\* is given) is set on the conversation that setup_conversation creates or
\* resumes; a resumed conversation may be waiting for a confirmation.
InitRunner ==
  /\ active_sessions = [s \in Ids |-> NoHandle]
  /\ constructed = [s \in Ids |-> 0]
  /\ running_tasks = [s \in Ids |-> NoTask]
  /\ req = [r \in Reqs |-> NoReq]
  /\ task = [r \in Reqs |-> NoTaskRec]
  /\ thread = [r \in Reqs |-> "none"]
  /\ status = [s \in Ids |-> "idle"]
  /\ events = [s \in Ids |-> 0]
  /\ log = <<>> /\ appended = 0 /\ started = 0 /\ sent = <<>>
  /\ wire = <<>> /\ ridx = 0 /\ rwire = <<>> /\ stats = FALSE
  /\ policy \in Policies
  /\ confActive = (policy # "never")
  /\ rstatus \in {"idle", "waiting"}
  /\ pending \in 0..MaxPending
  /\ rstatus = "idle" => pending = 0
  /\ running = FALSE
  /\ rpc = "idle"
  /\ hasCallback \in BOOLEAN
  /\ decision = "none"
  /\ deferred = FALSE
  /\ deferredVia = {}
  /\ msgs = 0
  /\ asked = FALSE
  /\ rcalls = <<>>
  /\ ui = NoUi
  /\ mOpen = FALSE /\ mCfg = NoCallbacks /\ mButton = "none"
  /\ mTrace = <<>> /\ mPresses = 0
  /\ mounted = TRUE /\ is_working = FALSE /\ start_time = NoTime
  /\ timer = NoTimer /\ working_frame = 0 /\ liveTimers = {}
  /\ timersMade = 0 /\ clock = 1 /\ lastNotified = "none"
  /\ is_multiline_mode = FALSE /\ input_value = <<>>
  /\ textarea_text = <<>> /\ stored_content = <<>> /\ trip = NoTrip
  /\ submitted = 0 /\ worker = [m \in 1..MaxSubmits |-> "none"]
  /\ cpc = "idle" /\ confirmation_panel = NoPanel
  /\ decision_future = "unset" /\ chosen = "none" /\ cause = "none"
  /\ returned = "none" /\ confirms = 0

Next ==
  \/ \E r \in Reqs, s \in Sessions, out \in SetupOutcomes, cwd \in CwdKinds :
        NewSession(r, s, out, cwd)
  \/ \E r \in Reqs, s \in Ids, out \in SetupOutcomes, empty \in BOOLEAN :
        PromptArrive(r, s, out, empty)
  \/ \E r \in Reqs, s \in Ids, out \in SetupOutcomes : CancelArrive(r, s, out)
  \/ \E r \in Reqs, s \in Ids, out \in SetupOutcomes : LoadArrive(r, s, out)
  \/ \E t \in Reqs : TaskStart(t)
  \/ \E t \in Reqs : WorkerEmit(t)
  \/ \E t \in Reqs : WorkerFinish(t)
  \/ \E t \in Reqs : WorkerObservePause(t)
  \/ \E t \in Reqs : WorkerRaise(t)
  \/ \E r \in Reqs : PromptResume(r)
  \/ \E r \in Reqs : PromptNotifyError(r)
  \/ \E r \in Reqs : PromptRaise(r)
  \/ \E r \in Reqs : CancelWaitDone(r)
  \/ \E r \in Reqs : CancelTimeout(r)
  \/ \E r \in Reqs : CancelAck(r)
  \/ \E r \in Reqs : LoadReplay(r)

Spec == Init /\ [][Next]_vars

SpecStream == InitStream /\ [][NextStream]_vars

SpecRunner == InitRunner /\ [][NextRunner]_vars

\* The worker's thread goes on once it is in the finally clause.
FairSpecRunner == InitRunner /\ [][NextRunner]_vars /\ WF_vars(RunEnds)

\* The widgets after construction: no modal on the screen, the status line
\* idle, the input field empty and in single-line mode.
InitUi ==
  /\ active_sessions = [s \in Ids |-> NoHandle]
  /\ constructed = [s \in Ids |-> 0]
  /\ running_tasks = [s \in Ids |-> NoTask]
  /\ req = [r \in Reqs |-> NoReq]
  /\ task = [r \in Reqs |-> NoTaskRec]
  /\ thread = [r \in Reqs |-> "none"]
  /\ status = [s \in Ids |-> "idle"]
  /\ events = [s \in Ids |-> 0]
  /\ log = <<>> /\ appended = 0 /\ started = 0 /\ sent = <<>>
  /\ wire = <<>> /\ ridx = 0 /\ rwire = <<>> /\ stats = FALSE
  /\ rstatus = "idle" /\ policy = "always" /\ pending = 0
  /\ confActive = TRUE /\ running = FALSE /\ rpc = "idle"
  /\ hasCallback = TRUE /\ decision = "none" /\ deferred = FALSE
  /\ deferredVia = {} /\ msgs = 0
  /\ asked = FALSE /\ rcalls = <<>> /\ ui = NoUi
  /\ mOpen = FALSE /\ mCfg = NoCallbacks /\ mButton = "none"
  /\ mTrace = <<>> /\ mPresses = 0
  /\ mounted = TRUE /\ is_working = FALSE /\ start_time = NoTime
  /\ timer = NoTimer /\ working_frame = 0 /\ liveTimers = {}
  /\ timersMade = 0 /\ clock = 1 /\ lastNotified = "none"
  /\ is_multiline_mode = FALSE /\ input_value = <<>>
  /\ textarea_text = <<>> /\ stored_content = <<>> /\ trip = NoTrip
  /\ submitted = 0 /\ worker = [m \in 1..MaxSubmits |-> "none"]
  /\ cpc = "idle" /\ confirmation_panel = NoPanel
  /\ decision_future = "unset" /\ chosen = "none" /\ cause = "none"
  /\ returned = "none" /\ confirms = 0

SpecModal == InitUi /\ [][NextModal]_vars

SpecStatus == InitUi /\ [][NextStatus]_vars

SpecInput == InitUi /\ [][NextInput]_vars

SpecSubmit == InitUi /\ [][NextSubmit]_vars

SpecConfirm == InitUi /\ [][NextConfirm]_vars

\* Fairness of the protocol loop: a cancel handler that can continue (its
\* awaited task ended, or the timer of wait_for fired) does continue.  No
\* fairness is assumed of the worker threads: run() may never return.
FairSpec ==
  /\ Init /\ [][Next]_vars
  /\ \A r \in Reqs :
       WF_vars(CancelWaitDone(r) \/ CancelTimeout(r) \/ CancelAck(r))

\* ================================================================ claims
Live(t) == task[t].state \in {"pending", "running"}

TasksOf(s) == {t \in Reqs : req[t].kind = "prompt" /\ req[t].sid = s /\ Live(t)}

\* C1: for every session at most one background run task is unfinished at
\* any time, under every interleaving of prompt requests.
C1_AtMostOneTask == \A s \in Sessions : Cardinality(TasksOf(s)) <= 1

\* C2: a session's conversation is built at most once, and every request
\* that looked the session up holds the one cached handle.
C2_CacheIdentity ==
  \A s \in Sessions :
    /\ constructed[s] <= 1
    /\ \A r \in Reqs :
         (req[r].sid = s /\ req[r].conv # NoHandle)
            => req[r].conv = active_sessions[s]

\* C2 witness: a prompt and a later cancel of one session hold the handle.
C2_Witness ==
  \E p \in Reqs, c \in Reqs :
    /\ req[p].kind = "prompt" /\ req[c].kind = "cancel"
    /\ req[p].sid = req[c].sid
    /\ req[p].conv # NoHandle /\ req[c].conv # NoHandle
    /\ p < c

\* C3: once a cancel has returned through the timeout path, the worker
\* thread of the task it awaited is no longer executing run().
C3_ForcedCancelStopsWorker ==
  \A r \in Reqs :
    (req[r].kind = "cancel" /\ req[r].pc = "done" /\ req[r].timedOut)
       => thread[req[r].awaited] # "running"

\* C4: every cancel request eventually returns, whatever the worker does.
C4_CancelReturns ==
  \A r \in Reqs : (req[r].kind = "cancel") ~> (req[r].pc = "done")

\* C4 witness: a cancel returned although the worker is still in run().
C4_Witness ==
  \E r \in Reqs :
    /\ req[r].kind = "cancel" /\ req[r].pc = "done" /\ req[r].timedOut
    /\ thread[req[r].awaited] = "running"

\* C5: in a cancel, pause() precedes the bounded wait, and the task is
\* force-cancelled only after that wait timed out: never a task that ended
\* within the timeout.
C5_CancelStageOrder ==
  /\ \A r \in Reqs :
       req[r].kind = "cancel" =>
         /\ req[r].pc \in {"wait", "ack"} => req[r].paused
         /\ req[r].forced => (req[r].timedOut /\ req[r].paused)
  /\ \A t \in Reqs :
       task[t].forced =>
         /\ task[t].state = "cancelled"
         /\ \E r \in Reqs : req[r].kind = "cancel" /\ req[r].awaited = t
                              /\ req[r].timedOut

\* C5 witness: a cancel went through all three stages.
C5_Witness ==
  \E r \in Reqs :
    /\ req[r].kind = "cancel" /\ req[r].pc = "done"
    /\ req[r].paused /\ req[r].timedOut /\ req[r].forced

NoRunningTask(s) ==
  IF running_tasks[s] = NoTask THEN TRUE ELSE TaskDone(running_tasks[s])

\* C6: a cancel on a session with no running task succeeds at once and
\* changes nothing: the cache, the execution status and the event log stay.
C6_CancelWithoutTaskIsNoop ==
  [][\A r \in Reqs, s \in Sessions :
       (req[r].kind = "none" /\ req'[r].kind = "cancel" /\ req'[r].sid = s
          /\ NoRunningTask(s))
        => /\ req'[r].pc = "done" /\ req'[r].result = "ok"
           /\ active_sessions'[s] = active_sessions[s]
           /\ constructed'[s] = constructed[s]
           /\ status'[s] = status[s]
           /\ events'[s] = events[s]]_vars

\* C9: a step of load_session replays the stored events one by one in
\* append order and re-executes nothing: it makes no engine call, creates
\* and registers no task, and leaves the status and the event log alone.
C9_LoadSessionReplaysOnly ==
  [][\A r \in Reqs :
       (req'[r].kind = "load" /\ req'[r] # req[r])
        => /\ req'[r].calls = {}
           /\ req'[r].idx \in {req[r].idx, req[r].idx + 1}
           /\ req'[r].idx <= events[req'[r].sid]
           /\ UNCHANGED <<running_tasks, task, thread, status, events>>]_vars

\* C9 witness: a load_session answered after replaying two stored events.
C9_Witness ==
  \E r \in Reqs :
    /\ req[r].kind = "load" /\ req[r].pc = "done" /\ req[r].result = "ok"
    /\ req[r].idx = 2 /\ events[req[r].sid] = 2

\* C7: during a live run the notifications reach the connection in the
\* order of their events: none of an earlier event follows one of a later.
C7_LiveOrder ==
  \A a \in 1..Len(wire), b \in 1..Len(wire) :
    a < b => wire[a].ev <= wire[b].ev

Kinds(w) == [k \in 1..Len(w) |-> w[k].kind]

\* C8: replaying the stored log sends the same sequence of notification
\* kinds as the live run that produced the log.
C8_ReplayFidelity == ReplayDone => Kinds(rwire) = Kinds(wire)

ConfirmationStep ==
  /\ rpc \in {"pre", "loop_check"}
  /\ rstatus = "waiting"
  /\ rpc' # rpc

\* C11: at WAITING_FOR_CONFIRMATION, ALWAYS_PROCEED sets the policy to
\* NeverConfirm and CONFIRM_RISKY sets it to ConfirmRisky (default
\* threshold); in both cases the next thing the worker does is a further
\* run() and the pending actions are not rejected.
C11_PolicyDecisionsResume ==
  [][(ConfirmationStep /\ decision' \in {"always_proceed", "confirm_risky"})
      => /\ policy' = (IF decision' = "always_proceed" THEN "never"
                       ELSE "risky")
         /\ rpc' = "loop_run"
         /\ pending' = pending
         /\ ~Has(rcalls', "reject_pending_actions")]_vars

\* C11 witness: after CONFIRM_RISKY the policy is ConfirmRisky and the worker
\* is inside the further run().
C11_Witness ==
  /\ decision = "confirm_risky"
  /\ policy = "risky"
  /\ rpc = "in_loop_run"
  /\ rcalls = <<"run">>

\* C12: at WAITING_FOR_CONFIRMATION, REJECT calls reject_pending_actions
\* exactly once, after the decision and with no run() in between, and the
\* next thing the worker does is run().
C12_RejectBeforeRun ==
  [][(ConfirmationStep /\ decision' = "reject")
      => /\ rcalls' = <<"get_unmatched_actions", "confirmation_callback",
                        "reject_pending_actions">>
         /\ rpc' = "loop_run"]_vars

\* C12 witness: the run() after a rejection has been entered.
C12_Witness ==
  /\ decision = "reject"
  /\ rpc = "in_loop_run"
  /\ rcalls = <<"run">>
  /\ deferredVia = {}

\* C13: whatever route replaced the policy, the worker's next gate check
\* uses it: a message is run under the confirmation loop (which puts pending
\* actions to the decision callback before run() executes them) exactly when
\* the conversation's policy is not NeverConfirm.
C13_PolicyChangeImmediate ==
  [][(rpc = "send" /\ rpc' \in {"pre", "plain_run"})
      => ((rpc' = "pre") <=> (policy # "never"))]_vars

\* C14: a confirmation request with no pending action, or with no decision
\* callback, is answered ACCEPT without invoking the callback.
C14_AcceptWithoutAsking ==
  [][(ConfirmationStep /\ (pending = 0 \/ ~hasCallback))
      => /\ decision' = "accept"
         /\ rcalls' = <<"get_unmatched_actions">>
         /\ rpc' = "loop_run"]_vars

\* C14 witness: ACCEPT without the callback for pending actions when no
\* callback is set.
C14_Witness ==
  /\ decision = "accept"
  /\ rcalls = <<"get_unmatched_actions">>
  /\ rpc = "loop_run"
  /\ pending > 0
  /\ ~hasCallback

\* C15: toggle_confirmation_mode sets AlwaysConfirm when it turns the mode
\* on and NeverConfirm when it turns it off; its only engine call is
\* set_confirmation_policy, and the pending actions, the execution status
\* and the worker are left alone.
C15_ToggleIsPolicyOnly ==
  [][(ui'.op = "toggle_confirmation_mode" /\ confActive' # confActive
        /\ rpc' = rpc)
      => /\ policy' = (IF confActive' THEN "always" ELSE "never")
         /\ ui'.calls = <<"set_confirmation_policy">>
         /\ UNCHANGED <<pending, rstatus, rcalls, running>>]_vars

\* C15 witness: the mode was toggled off while actions wait for
\* confirmation, and they still do.
C15_Witness ==
  /\ ui.op = "toggle_confirmation_mode"
  /\ policy = "never"
  /\ ~confActive
  /\ rstatus = "waiting"
  /\ pending > 0
  /\ rpc = "loop_check"

\* C16: every request that has ended returned its response or raised a
\* protocol RequestError (invalid-params or internal-error).
C16_OnlyProtocolErrors ==
  \A r \in Reqs :
    (req[r].kind # "none" /\ req[r].pc = "done")
       => req[r].result \in {"ok", "invalid_params", "internal_error"}

\* C17: when the run of a prompt raised, the inline error notification is
\* sent before the request fails with internal-error, the conversation stays
\* cached and neither this prompt's task nor an earlier one is registered.
C17_RunErrorKeepsSession ==
  \A r \in Reqs :
    (req[r].kind = "prompt" /\ task[r].state = "failed"
       /\ req[r].pc \in {"raise_error", "done"})
      => /\ req[r].notified
         /\ req[r].pc = "done" => req[r].result = "internal_error"
         /\ active_sessions[req[r].sid] = req[r].conv
         /\ req[r].conv # NoHandle
         /\ running_tasks[req[r].sid] \notin 1..r

\* C17 witness: after a prompt failed with internal-error, a later prompt on
\* the same session has a run in progress.
C17_Witness ==
  \E p \in Reqs, q \in Reqs :
    /\ p < q
    /\ req[p].kind = "prompt" /\ req[q].kind = "prompt"
    /\ req[p].sid = req[q].sid
    /\ task[p].state = "failed" /\ req[p].pc = "done"
    /\ req[p].result = "internal_error" /\ req[p].notified
    /\ task[q].state = "running"
    /\ running_tasks[req[q].sid] = q

PromptInFlight(s) ==
  \E r \in Reqs : req[r].kind = "prompt" /\ req[r].sid = s /\ req[r].pc # "done"

\* C18: whenever no prompt request is in flight for a session, no task is
\* registered for it, however the last run ended.
C18_DeregisteredWhenIdle ==
  \A s \in Sessions : ~PromptInFlight(s) => running_tasks[s] = NoTask

\* C18 witness: one prompt's run raised, another's was force-cancelled, both
\* requests are over and nothing is registered.
C18_Witness ==
  \E p \in Reqs, q \in Reqs :
    /\ req[p].kind = "prompt" /\ req[q].kind = "prompt"
    /\ req[p].pc = "done" /\ req[q].pc = "done"
    /\ task[p].state = "failed"
    /\ task[q].state = "cancelled"
    /\ \A s \in Sessions : running_tasks[s] = NoTask

\* C19: a request that names a malformed session id ends at once with
\* invalid-params: no lookup in the registry, no conversation constructed or
\* cached, no notification sent.
C19_MalformedIdRejected ==
  \A r \in Reqs :
    (req[r].kind # "none" /\ ~WellFormed(req[r].sid))
      => /\ req[r].pc = "done"
         /\ req[r].result = "invalid_params"
         /\ ~req[r].lookup
         /\ ~req[r].notified
         /\ constructed[req[r].sid] = 0
         /\ active_sessions[req[r].sid] = NoHandle

\* C20: with the agent configured, new_session on a missing working
\* directory creates it and succeeds with a fresh session id whose
\* conversation is cached; on a path that is not a directory it fails with
\* invalid-params and builds no conversation.
C20_NewSessionWorkdir ==
  \A r \in Reqs :
    (req[r].kind = "new" /\ req[r].setup = "ok") =>
      /\ req[r].cwd = "missing" =>
           /\ req[r].result = "ok"
           /\ "mkdir" \in req[r].calls
           /\ req[r].conv # NoHandle
           /\ active_sessions[req[r].sid] = req[r].conv
           /\ \A q \in Reqs : (q < r) => req[q].sid # req[r].sid
      /\ req[r].cwd = "file" =>
           /\ req[r].result = "invalid_params"
           /\ req[r].calls = {}
           /\ req[r].conv = NoHandle

\* C20 witness: one new_session created its missing directory and another
\* was refused a path that is a regular file.
C20_Witness ==
  \E a \in Reqs, b \in Reqs :
    /\ req[a].kind = "new" /\ req[a].setup = "ok" /\ req[a].cwd = "missing"
    /\ req[a].result = "ok"
    /\ req[b].kind = "new" /\ req[b].setup = "ok" /\ req[b].cwd = "file"
    /\ req[b].result = "invalid_params"

\* C21: an event that is malformed or of an unknown variant yields no
\* notification, live or replayed.
C21_NoNotificationOnFailure ==
  /\ \A k \in 1..Len(wire) :
       ~log[wire[k].ev].bad /\ log[wire[k].ev].type # "unknown"
  /\ \A k \in 1..Len(rwire) :
       ~log[rwire[k].ev].bad /\ log[rwire[k].ev].type # "unknown"

\* C22: no notification, live or replayed, comes from a SystemPrompt event
\* or from an internal state-update event.
C22_SystemPromptSuppressed ==
  /\ \A k \in 1..Len(wire) :
       log[wire[k].ev].type \notin {"system_prompt", "state_update"}
  /\ \A k \in 1..Len(rwire) :
       log[rwire[k].ev].type \notin {"system_prompt", "state_update"}

\* C23: each event yields at most one notification.
C23_AtMostOneNotification ==
  \A i \in 1..Len(log) :
    /\ Cardinality({k \in 1..Len(wire) : wire[k].ev = i}) <= 1
    /\ Cardinality({k \in 1..Len(rwire) : rwire[k].ev = i}) <= 1

\* C24: a task-list observation yields a plan notification and no
\* tool_call_update.
C24_PlanInsteadOfUpdate ==
  \A i \in 1..Len(log) :
    (log[i].type = "observation" /\ log[i].tool = "task_tracker" /\ ~log[i].bad)
      => /\ \A k \in 1..Len(wire) :
              wire[k].ev = i => wire[k].kind = "plan"
         /\ sent[i] = Len(Translate(log[i])) =>
              \E k \in 1..Len(wire) : wire[k].ev = i /\ wire[k].kind = "plan"

\* C25: when the conversation has statistics, every replayed notification
\* that has a metadata field carries the metrics, as the live ones do.
C25_ReplayCarriesMetrics ==
  stats =>
    /\ \A k \in 1..Len(wire) :
         wire[k].kind # "plan" => wire[k].meta = "metrics"
    /\ \A k \in 1..Len(rwire) :
         rwire[k].kind # "plan" => rwire[k].meta = "metrics"

\* The step changes something that belongs to session b: its cache entry,
\* its registered task, its execution status, its event log, or the task or
\* worker of one of its prompts.
Changed(b) ==
  \/ active_sessions'[b] # active_sessions[b]
  \/ constructed'[b] # constructed[b]
  \/ running_tasks'[b] # running_tasks[b]
  \/ status'[b] # status[b]
  \/ events'[b] # events[b]
  \/ \E t \in Reqs :
       /\ req'[t].kind = "prompt" /\ req'[t].sid = b
       /\ (task'[t] # task[t] \/ thread'[t] # thread[t])

\* C26: a step of a request on session A changes nothing that belongs to
\* another session B: neither B's conversation handle, registered task,
\* execution status or event log, nor the task or worker of B's prompts.
C26_SessionsIndependent ==
  [][\A r \in Reqs, b \in Sessions :
       (req'[r] # req[r] /\ req'[r].sid # b) => ~Changed(b)]_vars

\* C26 witness: a cancel on one session went through pause, timeout and
\* forced cancellation while the run of another session is still registered
\* and running.
C26_Witness ==
  \E c \in Reqs, p \in Reqs :
    /\ req[c].kind = "cancel" /\ req[c].pc = "done" /\ req[c].forced
    /\ req[p].kind = "prompt" /\ req[p].sid # req[c].sid
    /\ task[p].state = "running" /\ thread[p] = "running"
    /\ running_tasks[req[p].sid] = p
    /\ status[req[p].sid] = "running"

Count(calls, c) == Cardinality({k \in 1..Len(calls) : calls[k] = c})

\* C27: a button press on the exit modal dismisses the modal first and only
\* once; "yes" calls exactly the exit-confirmed callback, any other button
\* calls exactly the exit-cancelled callback when one was given and nothing
\* otherwise; a callback that raises leads to one error notification, made
\* right after the call, and nothing propagates out of the handler.
C27_DismissThenMatchingCallback ==
  mButton # "none" =>
    /\ Len(mTrace) >= 1
    /\ mTrace[1] = "dismiss"
    /\ Count(mTrace, "dismiss") = 1
    /\ Count(mTrace, "on_exit_confirmed") = (IF mButton = "yes" THEN 1 ELSE 0)
    /\ Count(mTrace, "on_exit_cancelled") =
         (IF mButton # "yes" /\ mCfg.cancelledGiven THEN 1 ELSE 0)
    /\ Count(mTrace, "notify") =
         (IF \/ mButton = "yes" /\ mCfg.confirmedRaises
             \/ mButton # "yes" /\ mCfg.cancelledGiven /\ mCfg.cancelledRaises
            THEN 1 ELSE 0)
    /\ Has(mTrace, "notify") => mTrace[Len(mTrace)] = "notify"
    /\ ~Has(mTrace, "raise")
    /\ ~mOpen

\* C27 witness: the "no" button was pressed on a modal whose
\* exit-cancelled callback raises, and the error was notified.
C27_Witness ==
  /\ mButton = "no"
  /\ mCfg.cancelledGiven /\ mCfg.cancelledRaises
  /\ mTrace = <<"dismiss", "on_exit_cancelled", "notify">>

\* C28: while mounted, the status line holds a timer and a start time exactly
\* when the last state it was notified of was running, and neither otherwise;
\* the only interval timer alive is the one it holds, so an old timer is
\* stopped before it is replaced or cleared and at most one is alive.
C28_OneTimerWhileRunning ==
  /\ mounted =>
       /\ (lastNotified = "running") <=> (timer # NoTimer /\ start_time # NoTime)
       /\ lastNotified # "running" => (timer = NoTimer /\ start_time = NoTime)
  /\ liveTimers = (IF timer = NoTimer THEN {} ELSE {timer})
  /\ Cardinality(liveTimers) <= 1

\* C28 witness: a running notification arrived while a timer was held, and
\* the timer was replaced.
C28_Witness ==
  /\ mounted
  /\ lastNotified = "running"
  /\ timersMade >= 2
  /\ timer = timersMade
  /\ liveTimers = {timer}

\* C29: toggling the input field from multi-line to single-line mode and back
\* leaves the text area with the content it had, for every content.
C29_RoundTripPreserves ==
  trip.stage = "back" => textarea_text = trip.text

\* C30: whenever a session has an unfinished run task, the task registered
\* for the session is an unfinished task of that session.
C30_RegisteredTaskIsLive ==
  \A s \in Sessions :
    TasksOf(s) # {} => running_tasks[s] \in TasksOf(s)

\* C31: is_confirmation_mode_active is true exactly when the conversation's
\* confirmation policy is not NeverConfirm.
C31_ModeMatchesPolicy == confActive <=> (policy # "never")

\* The workers that are inside _run_conversation_sync.
ActiveRuns == {m \in 1..MaxSubmits : worker[m] \in {"started", "ran"}}

\* C32: in the terminal UI at most one conversation run is active at any
\* time, whatever the interleaving of message submissions with the worker
\* thread setting the running flag.
C32_OneActiveRun == Cardinality(ActiveRuns) <= 1

\* The tool call an event belongs to: an action and the observation,
\* rejection or error of the same tool in a log carry the same tool-call id.
CallOf(i) == log[i].tool

\* Event i answers an action that is earlier in the log.
AnswersAction(i) ==
  \E a \in 1..(i - 1) : log[a].type = "action" /\ CallOf(a) = CallOf(i)

\* In stream w, the tool_call_update at position k comes after a tool_call
\* with the same tool-call id.
StartedBefore(w, k) ==
  \E j \in 1..(k - 1) :
    w[j].kind = "tool_call" /\ CallOf(w[j].ev) = CallOf(w[k].ev)

\* C33: in the replayed and in the live notification stream, every
\* tool_call_update of an event that answers an action of the log comes after
\* a tool_call with the same tool-call id.
C33_UpdateAfterStart ==
  /\ \A k \in 1..Len(rwire) :
       (rwire[k].kind = "tool_call_update" /\ AnswersAction(rwire[k].ev))
          => StartedBefore(rwire, k)
  /\ \A k \in 1..Len(wire) :
       (wire[k].kind = "tool_call_update" /\ AnswersAction(wire[k].ev))
          => StartedBefore(wire, k)

\* Request r arrives in this step and its lookup of the conversation fails.
FailedLookup(r) ==
  /\ req[r].kind = "none"
  /\ req'[r].kind # "none"
  /\ req'[r].lookup
  /\ req'[r].conv = NoHandle

\* Request r has ended with a failed lookup.
LookupFailed(r) ==
  /\ req[r].kind # "none"
  /\ req[r].lookup
  /\ req[r].conv = NoHandle

\* C34: a request whose lookup fails on a cache miss leaves the session
\* registry as it was, with no entry for its id; and a request that arrives
\* for an id whose earlier lookup failed, and that is still not cached, goes
\* through construction again: it fails too, or it caches a newly built
\* conversation.
C34_FailedSetupNotCached ==
  [][\A r \in Reqs :
       /\ FailedLookup(r) =>
            /\ active_sessions' = active_sessions
            /\ active_sessions'[req'[r].sid] = NoHandle
       /\ ( /\ req[r].kind = "none" /\ req'[r].lookup
            /\ active_sessions[req'[r].sid] = NoHandle
            /\ \E q \in Reqs : LookupFailed(q) /\ req[q].sid = req'[r].sid )
          => \/ FailedLookup(r)
             \/ /\ constructed'[req'[r].sid] = constructed[req'[r].sid] + 1
                /\ active_sessions'[req'[r].sid] = req'[r].conv
                /\ req'[r].conv # NoHandle]_vars

\* C34 witness: a lookup of a session failed, and a later request for the
\* same id built and cached the conversation.
C34_Witness ==
  \E q \in Reqs, r \in Reqs :
    /\ q < r
    /\ LookupFailed(q)
    /\ req[r].sid = req[q].sid
    /\ req[r].conv # NoHandle
    /\ active_sessions[req[r].sid] = req[r].conv
    /\ constructed[req[r].sid] = 1

\* C35: in the confirmation run loop, when run() has returned with a status
\* other than WAITING_FOR_CONFIRMATION the worker's next step leaves the
\* loop, with no decision callback and no further run(); and the decision
\* callback is only ever invoked on a conversation that is waiting for
\* confirmation.
C35_LoopExitsUnlessWaiting ==
  [][/\ (rpc = "loop_check" /\ rstatus # "waiting" /\ rpc' # rpc)
          => /\ rpc' = "finally"
             /\ ~Has(rcalls', "confirmation_callback")
             /\ ~Has(rcalls', "run")
             /\ decision' = decision
     /\ (rcalls' # rcalls /\ Has(rcalls', "confirmation_callback"))
          => rstatus = "waiting"]_vars

\* C35 witness: run() returned PAUSED inside the loop and the loop was left.
C35_Witness ==
  /\ rpc = "finally"
  /\ rstatus = "paused"
  /\ rcalls = <<"break">>
  /\ ~deferred

\* C36: handling ACCEPT, REJECT or DEFER leaves the conversation's policy and
\* is_confirmation_mode_active as they were; a confirmation request changes
\* them only for ALWAYS_PROCEED or CONFIRM_RISKY.
C36_OnlyPolicyDecisionsChangePolicy ==
  [][ConfirmationStep =>
       /\ decision' \in {"accept", "reject", "defer"}
            => UNCHANGED <<policy, confActive>>
       /\ (policy' # policy \/ confActive' # confActive)
            => decision' \in {"always_proceed", "confirm_risky"}]_vars

\* C36 witness: pending actions were rejected under ConfirmRisky, and the
\* policy is still ConfirmRisky.
C36_Witness ==
  /\ decision = "reject"
  /\ Has(rcalls, "reject_pending_actions")
  /\ policy = "risky"
  /\ confActive
  /\ rpc = "loop_run"

\* C37: running=true is published before the message is sent; an exception
\* of send_message, of run or of the decision callback is handed to the
\* notification callback and takes the worker to the finally clause, from
\* where running=false is eventually published; is_running is false
\* whenever no run is in progress.
C37_RunningFlagBrackets ==
  /\ [](/\ rpc = "send" => running
        /\ rpc = "idle" => ~running
        /\ Has(rcalls, "raise")
             => (rpc = "finally" /\ Has(rcalls, "notification_callback")))
  /\ (rpc = "finally") ~> (~running /\ rpc = "idle")

\* C37 witness: the decision callback raised, the exception was notified and
\* the worker is in the finally clause.
C37_Witness ==
  /\ rpc = "finally"
  /\ running
  /\ rcalls = <<"get_unmatched_actions", "confirmation_callback", "raise",
                "notification_callback">>

\* C38: the UI confirmation handler returns DEFER whenever the user made no
\* decision before the wait ended (the panel could not be shown, the wait
\* timed out or failed), and otherwise exactly the decision the user chose.
C38_DeferUnlessDecided ==
  returned # "none" =>
    /\ chosen = "none" => returned = "defer"
    /\ chosen # "none" => returned = chosen
    /\ cause \in {"timeout", "error"} => (chosen = "none" /\ returned = "defer")

\* C38 witness: the second request timed out with its panel still on the
\* screen, and the handler returned DEFER.
C38_Witness ==
  /\ confirms = 2
  /\ cpc = "idle"
  /\ cause = "timeout"
  /\ returned = "defer"
  /\ chosen = "none"
  /\ confirmation_panel = [owner |-> 2, mounted |-> TRUE]

====
